---- MODULE Spec2Model ----
(***************************************************************************)
(* Model of app.py: the Whisper model cache, transcription, the            *)
(* two-provider translation fallback and the audio processing pipeline.    *)
(*                                                                         *)
(* Python strings are sequences of tokens: a recognised text is a sequence *)
(* of one-character tokens, a message is a literal prefix token followed   *)
(* by the tokens of the interpolated value.  Accented letters and emoji of *)
(* the source literals are written in ASCII.                               *)
(***************************************************************************)
EXTENDS Naturals, Sequences, FiniteSets

VARIABLES
    _modelos_cache,   \* app.py:431  model name -> loaded Whisper model
    _sistema_cache,   \* app.py:26   model name -> SistemaTranscricaoTraducao
    cargas,           \* number of backend loads invoked, per cache and model
    pc,               \* position of the pipeline run
    entrada,          \* arguments of the running pipeline call
    locais,           \* local variables of the running pipeline call
    resultado,        \* what the pipeline call gave back to its caller
    chamadas,         \* collaborator calls made by the current call, in order
    tpc,              \* per caller: position inside the get-or-load function
    tfn,              \* per caller: which get-or-load function it runs
    tmodelo,          \* per caller: the requested model name
    thandle,          \* per caller: the handle its own load returned
    tret,             \* per caller: the handle it received
    targs,            \* arguments of the direct traduzir_texto call
    tres              \* outcome of the direct traduzir_texto call

vars == <<_modelos_cache, _sistema_cache, cargas, pc, entrada, locais,
          resultado, chamadas, tpc, tfn, tmodelo, thandle, tret, targs, tres>>

-----------------------------------------------------------------------------
(* Bounds *)

MaxLen == 2             \* longest recognised text, in characters
MaxCargas == 1          \* a load may fail only while fewer loads than this were invoked
NumChamadores == 2      \* concurrent callers of the get-or-load functions

-----------------------------------------------------------------------------
(* Values *)

None == "<None>"
Vazio == <<>>           \* the empty string ""

Chars == {"a", " "}

RECURSIVE TextosDe(_)
TextosDe(n) ==
    IF n = 0 THEN {<<>>}
    ELSE LET menores == TextosDe(n - 1)
         IN  menores \cup {Append(s, c) : s \in {m \in menores : Len(m) = n - 1}, c \in Chars}

Textos == TextosDe(MaxLen)

\* str.strip(): drops leading and trailing whitespace
RECURSIVE LStrip(_)
LStrip(s) == IF s # <<>> /\ Head(s) = " " THEN LStrip(Tail(s)) ELSE s

RECURSIVE RStrip(_)
RStrip(s) ==
    IF s # <<>> /\ s[Len(s)] = " " THEN RStrip(SubSeq(s, 1, Len(s) - 1)) ELSE s

Strip(s) == RStrip(LStrip(s))

\* Python truthiness of a text, and of an optional language code
TruthyTexto(s) == s # <<>>
Truthy(x) == x # None /\ x # ""

QUALIDADE_PARA_MODELO ==
    [q \in {"Muito Rapida", "Rapida", "Balanceada", "Alta Qualidade", "Maxima Qualidade"} |->
        CASE q = "Muito Rapida"     -> "tiny"
          [] q = "Rapida"           -> "base"
          [] q = "Balanceada"       -> "small"
          [] q = "Alta Qualidade"   -> "medium"
          [] q = "Maxima Qualidade" -> "large"]

IDIOMAS ==
    [l \in {"Deteccao Automatica", "Portugues", "Ingles", "Espanhol", "Frances",
            "Alemao", "Italiano", "Japones", "Coreano", "Chines (Simplificado)",
            "Russo", "Arabe"} |->
        CASE l = "Deteccao Automatica"   -> "auto"
          [] l = "Portugues"             -> "pt"
          [] l = "Ingles"                -> "en"
          [] l = "Espanhol"              -> "es"
          [] l = "Frances"               -> "fr"
          [] l = "Alemao"                -> "de"
          [] l = "Italiano"              -> "it"
          [] l = "Japones"               -> "ja"
          [] l = "Coreano"               -> "ko"
          [] l = "Chines (Simplificado)" -> "zh-CN"
          [] l = "Russo"                 -> "ru"
          [] l = "Arabe"                 -> "ar"]

IDIOMAS_DESTINO ==
    [l \in DOMAIN IDIOMAS \ {"Deteccao Automatica"} |-> IDIOMAS[l]]

Modelos == {QUALIDADE_PARA_MODELO[q] : q \in DOMAIN QUALIDADE_PARA_MODELO}

-----------------------------------------------------------------------------
(* Outcomes of calls: a returned value or a raised exception *)

Retorno(v, cs) == [tipo |-> "retorno", valor |-> v, chamadas |-> cs]
Excecao(e, cs) == [tipo |-> "excecao", valor |-> e, chamadas |-> cs]

\* one collaborator call, as logged: operation, first argument, source and
\* target language arguments, whether it returned, and what it returned or raised
Chamada(op, arg, origem, destino, ok, res) ==
    [op |-> op, arg |-> arg, origem |-> origem, destino |-> destino,
     ok |-> ok, res |-> res]

-----------------------------------------------------------------------------
(* Environment of one traduzir_texto call: what each collaborator does     *)

Saidas == {<<"x">>, <<"y">>}                    \* texts a provider may return
ErrosGoogle == {<<"g1">>}            \* str(e) of GoogleTranslator failures
ErrosMyMemory == {<<"m1">>}          \* str(e) of MyMemoryTranslator failures
ErrosDetect == {<<"d1">>}                       \* str(e) of langdetect failures
CodigosDetect == {"pt", "en"}                   \* codes langdetect may answer

\* a provider either fails in its constructor, fails in translate, or answers
ProvedorAmb(erros) ==
    {[fase |-> "ctor", v |-> e] : e \in erros}
      \cup {[fase |-> "translate", v |-> e] : e \in erros}
      \cup {[fase |-> "ok", v |-> s] : s \in Saidas}

DetectAmb ==
    {[fase |-> "ok", v |-> <<c>>] : c \in CodigosDetect}
      \cup {[fase |-> "erro", v |-> e] : e \in ErrosDetect}

AmbTraducao ==
    [detect : DetectAmb, google : ProvedorAmb(ErrosGoogle),
     mymemory : ProvedorAmb(ErrosMyMemory)]

\* the calls one provider attempt makes: the constructor, then translate
TentativaChamadas(nome, p, texto, origem, destino) ==
    IF p.fase = "ctor"
    THEN <<Chamada(nome, Vazio, origem, destino, FALSE, p.v)>>
    ELSE <<Chamada(nome, Vazio, origem, destino, TRUE, Vazio),
           Chamada(nome \o ".translate", texto, origem, destino, p.fase = "ok", p.v)>>

\* variant: the fallback's failure is reported instead of the first one
MensagemErroTraducaoDoFallback(e_google, e_mymemory) ==
    <<"X Erro ao traduzir: ">> \o e_mymemory

\* the diagnostic of the "erro" outcome (app.py:507)
MensagemErroTraducao(e_google, e_mymemory) == <<"X Erro ao traduzir: ">> \o e_google

\* variant: the fallback is built without the caller's source language
TraduzirComFallbackOrigemAuto(texto, idioma_destino, idioma_origem, amb, cs) ==
    LET cg == cs \o TentativaChamadas("GoogleTranslator", amb.google, texto,
                                      idioma_origem, idioma_destino)
        cm == cg \o TentativaChamadas("MyMemoryTranslator", amb.mymemory, texto,
                                      "auto", idioma_destino)
    IN  IF amb.google.fase = "ok"
        THEN Retorno([texto |-> amb.google.v, servico |-> "Google Translate"], cg)
        ELSE IF amb.mymemory.fase = "ok"
        THEN Retorno([texto |-> amb.mymemory.v, servico |-> "MyMemory"], cm)
        ELSE Retorno([texto |-> MensagemErroTraducao(amb.google.v, amb.mymemory.v),
                      servico |-> "erro"], cm)

\* variant: the failure of the fallback leaves traduzir_texto as an exception
TraduzirComFallbackLevanta(texto, idioma_destino, idioma_origem, amb, cs) ==
    LET cg == cs \o TentativaChamadas("GoogleTranslator", amb.google, texto,
                                      idioma_origem, idioma_destino)
        cm == cg \o TentativaChamadas("MyMemoryTranslator", amb.mymemory, texto,
                                      idioma_origem, idioma_destino)
    IN  IF amb.google.fase = "ok"
        THEN Retorno([texto |-> amb.google.v, servico |-> "Google Translate"], cg)
        ELSE IF amb.mymemory.fase = "ok"
        THEN Retorno([texto |-> amb.mymemory.v, servico |-> "MyMemory"], cm)
        ELSE Excecao(amb.mymemory.v, cm)

\* app.py:499-507: GoogleTranslator, then MyMemoryTranslator, then "erro"
TraduzirComFallback(texto, idioma_destino, idioma_origem, amb, cs) ==
    LET cg == cs \o TentativaChamadas("GoogleTranslator", amb.google, texto,
                                      idioma_origem, idioma_destino)
        cm == cg \o TentativaChamadas("MyMemoryTranslator", amb.mymemory, texto,
                                      idioma_origem, idioma_destino)
    IN  IF amb.google.fase = "ok"
        THEN Retorno([texto |-> amb.google.v, servico |-> "Google Translate"], cg)
        ELSE IF amb.mymemory.fase = "ok"
        THEN Retorno([texto |-> amb.mymemory.v, servico |-> "MyMemory"], cm)
        ELSE Retorno([texto |-> MensagemErroTraducao(amb.google.v, amb.mymemory.v),
                      servico |-> "erro"], cm)

\* variant: the same-language short cut is never taken
MesmaLinguaNunca(idioma_origem, idioma_destino) == FALSE

\* app.py:495-497
MesmaLingua(idioma_origem, idioma_destino) == idioma_origem = idioma_destino

\* variant: only the empty string counts as empty, whitespace does not
TextoVazioSemStrip(texto) == ~TruthyTexto(texto)

\* app.py:488
TextoVazio(texto) == ~TruthyTexto(texto) \/ ~TruthyTexto(Strip(texto))

\* app.py:486-507
traduzir_texto(texto, idioma_destino, idioma_origem, amb) ==
    IF TextoVazio(texto)
    THEN Retorno([texto |-> texto, servico |-> "nenhum"], <<>>)
    ELSE IF ~Truthy(idioma_origem) /\ amb.detect.fase = "erro"
    THEN Excecao(amb.detect.v,
                 <<Chamada("detect", texto, None, None, FALSE, amb.detect.v)>>)
    ELSE LET cs == IF Truthy(idioma_origem) THEN <<>>
                   ELSE <<Chamada("detect", texto, None, None, TRUE, amb.detect.v)>>
             origem == IF Truthy(idioma_origem) THEN idioma_origem
                       ELSE amb.detect.v[1]
         IN  IF MesmaLingua(origem, idioma_destino)
             THEN Retorno([texto |-> texto, servico |-> "nenhum (mesma lingua)"], cs)
             ELSE TraduzirComFallback(texto, idioma_destino, origem, amb, cs)

-----------------------------------------------------------------------------
(* Direct calls of traduzir_texto *)

CodigosArg == {"pt", "en", "auto"}
OrigensArg == CodigosArg \cup {None, ""}

SemChamada == [texto |-> Vazio, destino |-> None, origem |-> None]
SemResultado == [tipo |-> "nenhum", valor |-> <<>>, chamadas |-> <<>>]
SemRetorno == [tipo |-> "nenhum", valor |-> <<>>]

ChamarTraduzirTexto ==
    /\ tres.tipo = "nenhum"
    /\ \E amb \in AmbTraducao :
           tres' = traduzir_texto(targs.texto, targs.destino, targs.origem, amb)
    /\ UNCHANGED <<_modelos_cache, _sistema_cache, cargas, pc, entrada, locais,
                   resultado, chamadas, tpc, tfn, tmodelo, thandle, tret, targs>>

NovaChamadaTraduzir ==
    /\ tres.tipo # "nenhum"
    /\ \E t \in Textos, d \in CodigosArg, o \in OrigensArg :
           targs' = [texto |-> t, destino |-> d, origem |-> o]
    /\ tres' = SemResultado
    /\ UNCHANGED <<_modelos_cache, _sistema_cache, cargas, pc, entrada, locais,
                   resultado, chamadas, tpc, tfn, tmodelo, thandle, tret>>

-----------------------------------------------------------------------------
(* Initial state: empty caches, nothing running *)

Chamadores == 1..NumChamadores
Caches == {"carregar_modelo_whisper", "obter_sistema"}

SemEntrada ==
    [ponto |-> None, arquivo_audio |-> None, qualidade |-> None,
     idioma_origem |-> None, idioma_destino |-> None, traduzir |-> FALSE]
SemLocais ==
    [modelo_whisper |-> None, codigo_idioma_destino |-> None,
     codigo_idioma_origem |-> None, idioma_transcricao |-> None,
     modelo |-> 0, texto_transcrito |-> Vazio, idioma_detectado |-> None]

InitComum ==
    /\ _modelos_cache = [m \in Modelos |-> 0]
    /\ _sistema_cache = [m \in Modelos |-> 0]
    /\ cargas = [f \in Caches |-> [m \in Modelos |-> 0]]
    /\ pc = "Idle"
    /\ entrada = SemEntrada
    /\ locais = SemLocais
    /\ resultado = SemRetorno
    /\ chamadas = <<>>
    /\ tpc = [t \in Chamadores |-> "idle"]
    /\ tfn = [t \in Chamadores |-> None]
    /\ tmodelo = [t \in Chamadores |-> None]
    /\ thandle = [t \in Chamadores |-> 0]
    /\ tret = [t \in Chamadores |-> 0]
    /\ tres = SemResultado

InitTraduzir ==
    /\ InitComum
    /\ \E t \in Textos, d \in CodigosArg, o \in OrigensArg :
           targs = [texto |-> t, destino |-> d, origem |-> o]

NextTraduzir == ChamarTraduzirTexto \/ NovaChamadaTraduzir

SpecTraduzir == InitTraduzir /\ [][NextTraduzir]_vars

-----------------------------------------------------------------------------
(* Properties of traduzir_texto, checked under SpecTraduzir *)

OpsGoogle == {"GoogleTranslator", "GoogleTranslator.translate"}
OpsMyMemory == {"MyMemoryTranslator", "MyMemoryTranslator.translate"}
OpsProvedor == OpsGoogle \cup OpsMyMemory

\* positions in a call log of the calls of a provider, all or only the failed
Posicoes(cs, ops) == {i \in 1..Len(cs) : cs[i].op \in ops}
Falhas(cs, ops) == {i \in Posicoes(cs, ops) : ~cs[i].ok}

\* the spec's providerUsed for a service label of the code
ProviderUsed(servico) ==
    CASE servico \in {"nenhum", "nenhum (mesma lingua)"} -> "none"
      [] servico = "Google Translate"                    -> "providerA"
      [] servico = "MyMemory"                            -> "providerB"
      [] servico = "erro"                                -> "error"

TraducaoFeita == tres.tipo # "nenhum"
AmbosFalharam(cs) == Falhas(cs, OpsGoogle) # {} /\ Falhas(cs, OpsMyMemory) # {}
SoGoogleFalhou(cs) == Falhas(cs, OpsGoogle) # {} /\ Falhas(cs, OpsMyMemory) = {}

\* C2: when GoogleTranslator fails and MyMemoryTranslator fails too, the call
\* returns service "erro" and the text is the error prefix followed by the
\* message of the GoogleTranslator failure, not of the MyMemoryTranslator one.
C2_ErroCarregaFalhaDoGoogle ==
    (TraducaoFeita /\ AmbosFalharam(tres.chamadas)) =>
        /\ tres.tipo = "retorno"
        /\ ProviderUsed(tres.valor.servico) = "error"
        /\ \A i \in Falhas(tres.chamadas, OpsGoogle) :
               tres.valor.texto = <<"X Erro ao traduzir: ">> \o tres.chamadas[i].res

\* both providers failed, with different messages
C2_Witness ==
    /\ TraducaoFeita /\ AmbosFalharam(tres.chamadas)
    /\ \E i \in Falhas(tres.chamadas, OpsGoogle), j \in Falhas(tres.chamadas, OpsMyMemory) :
           tres.chamadas[i].res # tres.chamadas[j].res

\* C3: when GoogleTranslator fails (in its constructor or in translate) and
\* MyMemoryTranslator answers, the call returns MyMemory's text with service
\* "MyMemory"; every MyMemory call comes after the Google failure and gets the
\* text, source and target of the call (the ones Google got).
C3_FallbackTransparente ==
    LET cs == tres.chamadas
    IN  /\ (TraducaoFeita /\ SoGoogleFalhou(cs) /\ Posicoes(cs, OpsMyMemory) # {}) =>
            /\ tres.tipo = "retorno"
            /\ ProviderUsed(tres.valor.servico) = "providerB"
            /\ \E j \in Posicoes(cs, {"MyMemoryTranslator.translate"}) :
                   /\ cs[j].ok
                   /\ tres.valor.texto = cs[j].res
                   /\ cs[j].arg = targs.texto
        /\ TraducaoFeita =>
             \A j \in Posicoes(cs, OpsMyMemory) :
                /\ \E i \in Falhas(cs, OpsGoogle) : i < j
                /\ \A i \in Posicoes(cs, OpsGoogle) :
                      /\ cs[j].origem = cs[i].origem
                      /\ cs[j].destino = cs[i].destino
                      /\ cs[j].destino = targs.destino
                      /\ Truthy(targs.origem) => cs[j].origem = targs.origem
                      /\ (cs[i].op = "GoogleTranslator.translate"
                            /\ cs[j].op = "MyMemoryTranslator.translate")
                           => cs[j].arg = cs[i].arg

\* Google failed in its constructor and MyMemory answered
C3_Witness ==
    /\ TraducaoFeita /\ SoGoogleFalhou(tres.chamadas)
    /\ tres.tipo = "retorno" /\ tres.valor.servico = "MyMemory"
    /\ \E i \in Falhas(tres.chamadas, OpsGoogle) : tres.chamadas[i].op = "GoogleTranslator"

\* C4: a non-empty text whose source code equals the target code comes back
\* unchanged with no provider used, and no provider is constructed or called.
C4_MesmaLinguaSemProvedor ==
    (TraducaoFeita /\ TruthyTexto(targs.texto) /\ Truthy(targs.origem)
       /\ targs.origem = targs.destino) =>
        /\ tres.tipo = "retorno"
        /\ tres.valor.texto = targs.texto
        /\ ProviderUsed(tres.valor.servico) = "none"
        /\ Posicoes(tres.chamadas, OpsProvedor) = {}

\* a text with a letter, source = target
C4_Witness ==
    /\ TraducaoFeita /\ ~TextoVazio(targs.texto)
    /\ targs.origem = targs.destino
    /\ tres.valor.servico = "nenhum (mesma lingua)"

\* C5: an empty or whitespace-only text comes back unchanged with no provider
\* used, whatever the source and target (a missing source included), and
\* neither a provider nor the language detection is called.
C5_TextoVazioSemChamadas ==
    (TraducaoFeita /\ Strip(targs.texto) = Vazio) =>
        /\ tres.tipo = "retorno"
        /\ tres.valor.texto = targs.texto
        /\ ProviderUsed(tres.valor.servico) = "none"
        /\ tres.chamadas = <<>>

\* a whitespace-only text with a missing source and a target
C5_Witness ==
    /\ TraducaoFeita /\ targs.texto # Vazio /\ Strip(targs.texto) = Vazio
    /\ targs.origem = None /\ targs.destino = "en"
    /\ tres.tipo = "retorno"

-----------------------------------------------------------------------------
(* The model caches *)

\* variant: the model is loaded on every request, cached or not
carregar_modelo_whisper_sem_cache(cache, n, modelo, carga) ==
    IF carga.fase = "ok"
    THEN [tipo |-> "retorno", handle |-> n[modelo] + 1, erro |-> Vazio, invocou |-> TRUE,
          cache |-> [cache EXCEPT ![modelo] = n[modelo] + 1],
          n |-> [n EXCEPT ![modelo] = @ + 1]]
    ELSE [tipo |-> "excecao", handle |-> 0, erro |-> carga.v, invocou |-> TRUE,
          cache |-> cache, n |-> [n EXCEPT ![modelo] = @ + 1]]

\* variant: a failed load leaves an entry for the model in the cache
carregar_modelo_whisper_guarda_falha(cache, n, modelo, carga) ==
    IF cache[modelo] # 0
    THEN [tipo |-> "retorno", handle |-> cache[modelo], erro |-> Vazio, invocou |-> FALSE,
          cache |-> cache, n |-> n]
    ELSE IF carga.fase = "ok"
    THEN [tipo |-> "retorno", handle |-> n[modelo] + 1, erro |-> Vazio, invocou |-> TRUE,
          cache |-> [cache EXCEPT ![modelo] = n[modelo] + 1],
          n |-> [n EXCEPT ![modelo] = @ + 1]]
    ELSE [tipo |-> "excecao", handle |-> 0, erro |-> carga.v, invocou |-> TRUE,
          cache |-> [cache EXCEPT ![modelo] = n[modelo] + 1],
          n |-> [n EXCEPT ![modelo] = @ + 1]]

\* app.py:461-467, run without interruption.  cache[m] = 0: m is not cached;
\* the handle of the k-th load of a model is k.  n counts the loads invoked.
carregar_modelo_whisper(cache, n, modelo, carga) ==
    IF cache[modelo] # 0
    THEN [tipo |-> "retorno", handle |-> cache[modelo], erro |-> Vazio, invocou |-> FALSE,
          cache |-> cache, n |-> n]
    ELSE IF carga.fase = "ok"
    THEN [tipo |-> "retorno", handle |-> n[modelo] + 1, erro |-> Vazio, invocou |-> TRUE,
          cache |-> [cache EXCEPT ![modelo] = n[modelo] + 1],
          n |-> [n EXCEPT ![modelo] = @ + 1]]
    ELSE [tipo |-> "excecao", handle |-> 0, erro |-> carga.v, invocou |-> TRUE,
          cache |-> cache, n |-> [n EXCEPT ![modelo] = @ + 1]]

\* app.py:57-65, run without interruption: the same shape on _sistema_cache
obter_sistema(cache, n, modelo_whisper, carga) ==
    IF cache[modelo_whisper] # 0
    THEN [tipo |-> "retorno", handle |-> cache[modelo_whisper], erro |-> Vazio,
          invocou |-> FALSE, cache |-> cache, n |-> n]
    ELSE IF carga.fase = "ok"
    THEN [tipo |-> "retorno", handle |-> n[modelo_whisper] + 1, erro |-> Vazio,
          invocou |-> TRUE,
          cache |-> [cache EXCEPT ![modelo_whisper] = n[modelo_whisper] + 1],
          n |-> [n EXCEPT ![modelo_whisper] = @ + 1]]
    ELSE [tipo |-> "excecao", handle |-> 0, erro |-> carga.v, invocou |-> TRUE,
          cache |-> cache, n |-> [n EXCEPT ![modelo_whisper] = @ + 1]]

ErrosCarga == {<<"load failed">>}          \* str(e) of a failed model load
ErrosTranscricao == {<<"decode failed">>}  \* str(e) of a failed transcription

\* what the backend load does: it may fail only while the bound allows
CargaAmb(n, modelo) ==
    {[fase |-> "ok", v |-> Vazio]}
      \cup {[fase |-> "erro", v |-> e] : e \in {x \in ErrosCarga : n[modelo] < MaxCargas}}

-----------------------------------------------------------------------------
(* Transcription *)

IdiomasBackend == {"pt", "en", "xx"}   \* codes the backend may report

\* what modelo.transcribe does: it raises, or answers a text and, unless the
\* key is missing from its answer, a language; a forced language is the one
\* it reports
TranscribeAmb(idioma_forcado) ==
    {[fase |-> "erro", v |-> e, idioma |-> None] : e \in ErrosTranscricao}
      \cup {[fase |-> "ok", v |-> t, idioma |-> l] :
               t \in Textos,
               l \in IF idioma_forcado # None THEN {idioma_forcado}
                     ELSE IdiomasBackend \cup {None}}

\* variant: the language option is never passed
OpcaoLanguageNunca(idioma) == None

\* app.py:479-480: the language option passed to the backend, None when absent
OpcaoLanguage(idioma) == IF Truthy(idioma) /\ idioma # "auto" THEN idioma ELSE None

\* variant: the recognised text is returned as the backend gave it
transcrever_audio_sem_strip(arquivo_audio, idioma, amb) ==
    LET c == Chamada("modelo.transcribe", <<arquivo_audio>>, OpcaoLanguage(idioma),
                     None, amb.fase = "ok", amb.v)
    IN  IF amb.fase = "erro"
        THEN Excecao(amb.v, <<c>>)
        ELSE Retorno([texto |-> amb.v,
                      idioma |-> IF amb.idioma = None THEN "desconhecido" ELSE amb.idioma],
                     <<c>>)

\* app.py:470-483, after the model was obtained
transcrever_audio(arquivo_audio, idioma, amb) ==
    LET c == Chamada("modelo.transcribe", <<arquivo_audio>>, OpcaoLanguage(idioma),
                     None, amb.fase = "ok", amb.v)
    IN  IF amb.fase = "erro"
        THEN Excecao(amb.v, <<c>>)
        ELSE Retorno([texto |-> Strip(amb.v),
                      idioma |-> IF amb.idioma = None THEN "desconhecido" ELSE amb.idioma],
                     <<c>>)

\* main.py is not part of the sources: the transcriber of SistemaTranscricaoTraducao
\* follows the Transcriber contract (text passed through, forced language echoed)
SistemaTranscrever(arquivo_audio, idioma, amb) ==
    LET op == IF Truthy(idioma) THEN "sistema.transcritor.transcrever_arquivo"
              ELSE "sistema.processar_audio"
        c == Chamada(op, <<arquivo_audio>>, idioma, None, amb.fase = "ok", amb.v)
    IN  IF amb.fase = "erro"
        THEN Excecao(amb.v, <<c>>)
        ELSE Retorno([texto |-> amb.v,
                      idioma |-> IF amb.idioma = None THEN "desconhecido" ELSE amb.idioma],
                     <<c>>)

\* main.py is not part of the sources: the translator of SistemaTranscricaoTraducao
\* follows the TranslationGateway policy
SistemaTraduzir(texto, idioma_destino, idioma_origem, amb) ==
    traduzir_texto(texto, idioma_destino, idioma_origem, amb)

-----------------------------------------------------------------------------
(* The pipeline: processar_audio, processar_arquivo_audio, processar_microfone *)

Pontos == {"processar_audio", "processar_arquivo_audio", "processar_microfone"}
AudiosEntrada == {None, "audio.wav"}
QualidadesEntrada == {"Balanceada", "Rapida", "Ultra"}
OrigensEntrada == {"Deteccao Automatica", "Portugues", "Klingon"}
DestinosEntrada == {"Ingles", "Deteccao Automatica"}

DictGet(d, k) == IF k \in DOMAIN d THEN d[k] ELSE None

\* str(KeyError(k))
KeyErrorStr(k) == <<"'", k, "'">>

\* variant: the message names no reason
MensagemErroSemMotivo(e) == <<"X Erro ao processar audio: ">>

\* app.py:563 and app.py:147
MensagemErro(e) == <<"X Erro ao processar audio: ">> \o e

\* variant: the exception leaves the function
ExcecaoPropagada(e) == [tipo |-> "excecao", valor |-> <<e>>]

\* app.py:559-563 and app.py:143-147: the except clause of the pipeline
ExcecaoCapturada(e) == [tipo |-> "retorno", valor |-> <<MensagemErro(e), Vazio, Vazio>>]

\* variant: a missing input is not detected
EntradaAusenteNunca(e) == FALSE

\* app.py:519, app.py:84 and app.py:166
EntradaAusente(e) == e.arquivo_audio = None

\* app.py:520, app.py:85 and app.py:167
MensagemSemEntrada(ponto) ==
    IF ponto = "processar_microfone" THEN <<"X Nenhuma gravacao detectada.">>
    ELSE <<"X Nenhum arquivo foi enviado.">>

\* variant: the target label is looked up leniently, like the source label
ResolverConfigDestinoLeniente(e) ==
    IF e.qualidade \notin DOMAIN QUALIDADE_PARA_MODELO
    THEN Excecao(KeyErrorStr(e.qualidade), <<>>)
    ELSE LET origem == DictGet(IDIOMAS, e.idioma_origem)
         IN  Retorno([modelo_whisper |-> QUALIDADE_PARA_MODELO[e.qualidade],
                      codigo_idioma_destino |-> DictGet(IDIOMAS_DESTINO, e.idioma_destino),
                      codigo_idioma_origem |-> origem,
                      idioma_transcricao |-> IF origem = "auto" THEN None ELSE origem],
                     <<>>)

\* app.py:523-532 and app.py:88-96
ResolverConfig(e) ==
    IF e.qualidade \notin DOMAIN QUALIDADE_PARA_MODELO
    THEN Excecao(KeyErrorStr(e.qualidade), <<>>)
    ELSE IF e.idioma_destino \notin DOMAIN IDIOMAS_DESTINO
    THEN Excecao(KeyErrorStr(e.idioma_destino), <<>>)
    ELSE LET origem == DictGet(IDIOMAS, e.idioma_origem)
         IN  Retorno([modelo_whisper |-> QUALIDADE_PARA_MODELO[e.qualidade],
                      codigo_idioma_destino |-> IDIOMAS_DESTINO[e.idioma_destino],
                      codigo_idioma_origem |-> origem,
                      idioma_transcricao |-> IF origem = "auto" THEN None ELSE origem],
                     <<>>)

\* variant: the lookup has no default for a code outside the table
NomeIdiomaSemPadrao(codigo) ==
    IF \E k \in DOMAIN IDIOMAS : IDIOMAS[k] = codigo
    THEN CHOOSE k \in DOMAIN IDIOMAS : IDIOMAS[k] = codigo
    ELSE None

\* app.py:550, 554 and app.py:134, 138: label of a code, the code itself if unknown
NomeIdioma(codigo) ==
    IF \E k \in DOMAIN IDIOMAS : IDIOMAS[k] = codigo
    THEN CHOOSE k \in DOMAIN IDIOMAS : IDIOMAS[k] = codigo
    ELSE codigo

\* app.py:551 and app.py:135
InfoComServico(idioma_detectado, servico) ==
    <<"Idioma detectado: ", NomeIdioma(idioma_detectado),
      "\nServico de traducao: ", servico>>

\* app.py:553-555 and app.py:137-139
InfoSemTraducao(idioma_detectado) == <<"Idioma detectado: ", NomeIdioma(idioma_detectado)>>
TraducaoNaoSolicitada == <<"V Traducao nao solicitada.">>

\* the two versions of the application never run in one process
VersaoLivre(ponto) ==
    IF ponto = "processar_audio"
    THEN \A m \in Modelos : cargas["obter_sistema"][m] = 0
    ELSE \A m \in Modelos : cargas["carregar_modelo_whisper"][m] = 0

NaoMuda == <<tpc, tfn, tmodelo, thandle, tret, targs, tres>>

\* the caller invokes the entry point
Chamar ==
    /\ pc = "Idle"
    /\ \E p \in Pontos, a \in AudiosEntrada, q \in QualidadesEntrada,
          o \in OrigensEntrada, d \in DestinosEntrada, t \in BOOLEAN :
           /\ VersaoLivre(p)
           /\ entrada' = [ponto |-> p, arquivo_audio |-> a, qualidade |-> q,
                          idioma_origem |-> o, idioma_destino |-> d, traduzir |-> t]
    /\ pc' = "ValidatingInput"
    /\ UNCHANGED <<_modelos_cache, _sistema_cache, cargas, locais, resultado,
                   chamadas, NaoMuda>>

\* app.py:519-520, 84-85, 166-167
ValidarEntrada ==
    /\ pc = "ValidatingInput"
    /\ IF EntradaAusente(entrada)
       THEN /\ resultado' = [tipo |-> "retorno",
                             valor |-> <<MensagemSemEntrada(entrada.ponto), Vazio, Vazio>>]
            /\ pc' = "Failed"
       ELSE /\ pc' = "ResolvingConfig"
            /\ UNCHANGED resultado
    /\ UNCHANGED <<_modelos_cache, _sistema_cache, cargas, entrada, locais,
                   chamadas, NaoMuda>>

\* app.py:523-532, 88-96
ResolverConfiguracao ==
    /\ pc = "ResolvingConfig"
    /\ LET r == ResolverConfig(entrada)
       IN  IF r.tipo = "excecao"
           THEN /\ resultado' = ExcecaoCapturada(r.valor)
                /\ pc' = "Failed"
                /\ UNCHANGED locais
           ELSE /\ locais' = [locais EXCEPT
                                !.modelo_whisper = r.valor.modelo_whisper,
                                !.codigo_idioma_destino = r.valor.codigo_idioma_destino,
                                !.codigo_idioma_origem = r.valor.codigo_idioma_origem,
                                !.idioma_transcricao = r.valor.idioma_transcricao]
                /\ pc' = "Transcribing"
                /\ UNCHANGED resultado
    /\ UNCHANGED <<_modelos_cache, _sistema_cache, cargas, entrada, chamadas, NaoMuda>>

\* the end of a run whose transcription succeeded and whose translation was
\* not requested (app.py:552-557, 136-141)
ResultadoSemTraducao(t) ==
    [tipo |-> "retorno",
     valor |-> <<t.texto, TraducaoNaoSolicitada, InfoSemTraducao(t.idioma)>>]

\* variant: the translation step follows whether it was requested or not
AposModeloSempreTraduz(m, t) ==
    /\ chamadas' = chamadas \o
          (IF m.invocou
           THEN <<Chamada("load", <<locais.modelo_whisper>>, None, None,
                          m.tipo = "retorno", m.erro)>>
           ELSE <<>>) \o (IF m.tipo = "retorno" THEN t.chamadas ELSE <<>>)
    /\ IF m.tipo = "excecao" \/ t.tipo = "excecao"
       THEN /\ resultado' = ExcecaoCapturada(IF m.tipo = "excecao" THEN m.erro ELSE t.valor)
            /\ pc' = "Failed"
            /\ UNCHANGED locais
       ELSE /\ locais' = [locais EXCEPT !.modelo = m.handle,
                                        !.texto_transcrito = t.valor.texto,
                                        !.idioma_detectado = t.valor.idioma]
            /\ pc' = "Translating" /\ UNCHANGED resultado

\* what follows the model request in the Transcribing step
AposModelo(m, t) ==
    /\ chamadas' = chamadas \o
          (IF m.invocou
           THEN <<Chamada("load", <<locais.modelo_whisper>>, None, None,
                          m.tipo = "retorno", m.erro)>>
           ELSE <<>>) \o (IF m.tipo = "retorno" THEN t.chamadas ELSE <<>>)
    /\ IF m.tipo = "excecao" \/ t.tipo = "excecao"
       THEN /\ resultado' = ExcecaoCapturada(IF m.tipo = "excecao" THEN m.erro ELSE t.valor)
            /\ pc' = "Failed"
            /\ UNCHANGED locais
       ELSE /\ locais' = [locais EXCEPT !.modelo = m.handle,
                                        !.texto_transcrito = t.valor.texto,
                                        !.idioma_detectado = t.valor.idioma]
            /\ IF entrada.traduzir
               THEN pc' = "Translating" /\ UNCHANGED resultado
               ELSE pc' = "Done" /\ resultado' = ResultadoSemTraducao(t.valor)

\* app.py:533-537 with 470-483 and 461-467
TranscreverWhisper ==
    /\ pc = "Transcribing"
    /\ entrada.ponto = "processar_audio"
    /\ \E carga \in CargaAmb(cargas["carregar_modelo_whisper"], locais.modelo_whisper),
          amb \in TranscribeAmb(OpcaoLanguage(locais.idioma_transcricao)) :
           LET m == carregar_modelo_whisper(_modelos_cache, cargas["carregar_modelo_whisper"],
                                            locais.modelo_whisper, carga)
               t == transcrever_audio(entrada.arquivo_audio, locais.idioma_transcricao, amb)
           IN  /\ _modelos_cache' = m.cache
               /\ cargas' = [cargas EXCEPT !["carregar_modelo_whisper"] = m.n]
               /\ AposModelo(m, t)
    /\ UNCHANGED <<_sistema_cache, entrada, NaoMuda>>

\* app.py:98-121 with 57-65
TranscreverSistema ==
    /\ pc = "Transcribing"
    /\ entrada.ponto # "processar_audio"
    /\ \E carga \in CargaAmb(cargas["obter_sistema"], locais.modelo_whisper),
          amb \in TranscribeAmb(IF Truthy(locais.idioma_transcricao)
                                THEN locais.idioma_transcricao ELSE None) :
           LET m == obter_sistema(_sistema_cache, cargas["obter_sistema"],
                                  locais.modelo_whisper, carga)
               t == SistemaTranscrever(entrada.arquivo_audio, locais.idioma_transcricao, amb)
           IN  /\ _sistema_cache' = m.cache
               /\ cargas' = [cargas EXCEPT !["obter_sistema"] = m.n]
               /\ AposModelo(m, t)
    /\ UNCHANGED <<_modelos_cache, entrada, NaoMuda>>

\* app.py:542-557, 124-141
Traduzir ==
    /\ pc = "Translating"
    /\ \E amb \in AmbTraducao :
           LET r == IF entrada.ponto = "processar_audio"
                    THEN traduzir_texto(locais.texto_transcrito,
                                        locais.codigo_idioma_destino,
                                        locais.idioma_detectado, amb)
                    ELSE SistemaTraduzir(locais.texto_transcrito,
                                         locais.codigo_idioma_destino,
                                         locais.idioma_detectado, amb)
           IN  /\ chamadas' = chamadas \o r.chamadas
               /\ IF r.tipo = "excecao"
                  THEN /\ resultado' = ExcecaoCapturada(r.valor)
                       /\ pc' = "Failed"
                  ELSE /\ resultado' =
                            [tipo |-> "retorno",
                             valor |-> <<locais.texto_transcrito, r.valor.texto,
                                         InfoComServico(locais.idioma_detectado,
                                                        r.valor.servico)>>]
                       /\ pc' = "Done"
    /\ UNCHANGED <<_modelos_cache, _sistema_cache, cargas, entrada, locais, NaoMuda>>

\* the caller has the result; the next call starts afresh
Retornar ==
    /\ pc \in {"Done", "Failed"}
    /\ pc' = "Idle"
    /\ entrada' = SemEntrada
    /\ locais' = SemLocais
    /\ resultado' = SemRetorno
    /\ chamadas' = <<>>
    /\ UNCHANGED <<_modelos_cache, _sistema_cache, cargas, NaoMuda>>

Init ==
    /\ InitComum
    /\ targs = SemChamada

Next ==
    \/ Chamar
    \/ ValidarEntrada
    \/ ResolverConfiguracao
    \/ TranscreverWhisper
    \/ TranscreverSistema
    \/ Traduzir
    \/ Retornar

Spec == Init /\ [][Next]_vars

-----------------------------------------------------------------------------
(* Properties of the pipeline, checked under Spec *)

Terminal == pc \in {"Done", "Failed"}
Corrente == pc \notin {"Idle", "ValidatingInput"}
OpsModelo == {"load", "modelo.transcribe", "sistema.transcritor.transcrever_arquivo",
              "sistema.processar_audio"}
OpsTranscricao == OpsModelo \ {"load"}

\* C6 as claimed: with no audio, the transcript and the translation of the
\* result are both empty and the result carries the missing-input message.
C6_Original ==
    (Terminal /\ entrada.arquivo_audio = None) =>
        /\ resultado.tipo = "retorno"
        /\ resultado.valor[1] = Vazio
        /\ resultado.valor[2] = Vazio
        /\ \E i \in 1..Len(resultado.valor) :
               resultado.valor[i] = MensagemSemEntrada(entrada.ponto)

\* C6: with no audio, each entry point returns (never raises) a result whose
\* transcript field is the missing-input message and whose translation and
\* info fields are empty, and no model is loaded, nothing is transcribed and
\* nothing is translated.
C6_SemEntrada ==
    (Corrente /\ entrada.arquivo_audio = None) =>
        /\ pc = "Failed"
        /\ resultado = [tipo |-> "retorno",
                        valor |-> <<MensagemSemEntrada(entrada.ponto), Vazio, Vazio>>]
        /\ chamadas = <<>>
        /\ locais = SemLocais

\* the microphone entry point was called without a recording
C6_Witness ==
    /\ pc = "Failed" /\ entrada.arquivo_audio = None
    /\ entrada.ponto = "processar_microfone"
    /\ resultado.valor[1] = <<"X Nenhuma gravacao detectada.">>

\* C7: whatever the inputs and whichever collaborator fails, a run ends with a
\* returned triple (transcript, translation, info): no exception leaves the
\* entry point, a run that has not ended can take its next step, and it ends
\* in Done or in Failed.
C7_SempreRetornaTripla ==
    /\ pc \in {"Idle", "ValidatingInput", "ResolvingConfig", "Transcribing",
               "Translating", "Done", "Failed"}
    /\ resultado.tipo \in {"nenhum", "retorno"}
    /\ Terminal <=> resultado.tipo = "retorno"
    /\ Terminal => Len(resultado.valor) = 3
    /\ pc # "Idle" => ENABLED Next

\* the construction of the system failed in processar_arquivo_audio
C7_Witness ==
    /\ pc = "Failed" /\ entrada.ponto = "processar_arquivo_audio"
    /\ \E i \in Falhas(chamadas, {"load"}) : TRUE
    /\ resultado.tipo = "retorno" /\ Len(resultado.valor) = 3

\* C8: when the transcription succeeded and both translation providers
\* failed, the run ends in Done: the transcript field is the transcribed text
\* and only the translation field carries the error diagnostic.
C8_ErroDeTraducaoNaoAborta ==
    (Corrente /\ AmbosFalharam(chamadas)) =>
        /\ pc = "Done"
        /\ resultado.tipo = "retorno"
        /\ resultado.valor[1] = locais.texto_transcrito
        /\ \A i \in Posicoes(chamadas, {"modelo.transcribe"}) :
               chamadas[i].ok /\ resultado.valor[1] = Strip(chamadas[i].res)
        /\ \A i \in Falhas(chamadas, OpsGoogle) :
               resultado.valor[2] = <<"X Erro ao traduzir: ">> \o chamadas[i].res
        /\ resultado.valor[3] = InfoComServico(locais.idioma_detectado, "erro")

\* processar_audio transcribed a text and both providers failed
C8_Witness ==
    /\ pc = "Done" /\ entrada.ponto = "processar_audio"
    /\ AmbosFalharam(chamadas)
    /\ resultado.valor[1] # Vazio

\* C9: when the model load or the transcription fails, the run ends in Failed
\* without any provider call, the translation and info fields are empty and
\* the transcript field carries the reason of the failure.
C9_FalhaDeTranscricaoTerminal ==
    \A i \in Falhas(chamadas, OpsModelo) :
        /\ pc = "Failed"
        /\ Posicoes(chamadas, OpsProvedor \cup {"detect"}) = {}
        /\ i = Len(chamadas)
        /\ resultado = [tipo |-> "retorno",
                        valor |-> <<<<"X Erro ao processar audio: ">> \o chamadas[i].res,
                                    Vazio, Vazio>>]

\* the transcription failed in a run that asked for a translation
C9_Witness ==
    /\ pc = "Failed" /\ entrada.traduzir /\ entrada.ponto = "processar_audio"
    /\ Falhas(chamadas, {"modelo.transcribe"}) # {}

RotuloDesconhecido(e) ==
    \/ e.qualidade \notin DOMAIN QUALIDADE_PARA_MODELO
    \/ e.idioma_origem \notin DOMAIN IDIOMAS
    \/ e.idioma_destino \notin DOMAIN IDIOMAS_DESTINO

\* C10 as claimed: an unknown quality, source or target label fails the run
\* before any model load or transcription.
C10_Original ==
    (Terminal /\ entrada.arquivo_audio # None /\ RotuloDesconhecido(entrada)) =>
        /\ pc = "Failed"
        /\ Posicoes(chamadas, OpsModelo) = {}

\* C10: an unknown quality label or target label fails the run with a message
\* naming the label, before any model load or transcription; an unknown
\* source label does not fail the run: no language is forced and the run goes
\* on to the model load and the transcription.
C10_RotulosDesconhecidos ==
    (pc \in {"Transcribing", "Translating", "Done", "Failed"}
       /\ entrada.arquivo_audio # None) =>
        /\ entrada.qualidade \notin DOMAIN QUALIDADE_PARA_MODELO =>
              /\ pc = "Failed" /\ chamadas = <<>>
              /\ resultado.valor =
                   <<<<"X Erro ao processar audio: ">> \o KeyErrorStr(entrada.qualidade),
                     Vazio, Vazio>>
        /\ (entrada.qualidade \in DOMAIN QUALIDADE_PARA_MODELO
              /\ entrada.idioma_destino \notin DOMAIN IDIOMAS_DESTINO) =>
              /\ pc = "Failed" /\ chamadas = <<>>
              /\ resultado.valor =
                   <<<<"X Erro ao processar audio: ">> \o KeyErrorStr(entrada.idioma_destino),
                     Vazio, Vazio>>
        /\ (entrada.qualidade \in DOMAIN QUALIDADE_PARA_MODELO
              /\ entrada.idioma_destino \in DOMAIN IDIOMAS_DESTINO
              /\ entrada.idioma_origem \notin DOMAIN IDIOMAS) =>
              /\ locais.idioma_transcricao = None
              /\ pc = "Failed" => chamadas # <<>>
              /\ pc # "Transcribing" => Posicoes(chamadas, OpsTranscricao \cup {"load"}) # {}
              /\ \A i \in Posicoes(chamadas, OpsTranscricao) : chamadas[i].origem = None

\* the target label has no entry in IDIOMAS_DESTINO
C10_Witness ==
    /\ pc = "Failed" /\ entrada.arquivo_audio # None
    /\ entrada.qualidade \in DOMAIN QUALIDADE_PARA_MODELO
    /\ entrada.idioma_destino = "Deteccao Automatica"
    /\ chamadas = <<>>

-----------------------------------------------------------------------------
(* Concurrent callers of carregar_modelo_whisper and obter_sistema *)

ModelosPedidos == {"small", "base"}

CacheDe(f) == IF f = "carregar_modelo_whisper" THEN _modelos_cache ELSE _sistema_cache

NaoMudaConc == <<pc, entrada, locais, resultado, chamadas, targs, tres>>

\* a caller requests a model
Pedir(t) ==
    /\ tpc[t] = "idle"
    /\ \E f \in Caches, m \in ModelosPedidos :
           /\ tfn' = [tfn EXCEPT ![t] = f]
           /\ tmodelo' = [tmodelo EXCEPT ![t] = m]
    /\ tpc' = [tpc EXCEPT ![t] = "check"]
    /\ UNCHANGED <<_modelos_cache, _sistema_cache, cargas, thandle, tret, NaoMudaConc>>

\* app.py:463 and app.py:62: the membership test
Verificar(t) ==
    /\ tpc[t] = "check"
    /\ tpc' = [tpc EXCEPT ![t] = IF CacheDe(tfn[t])[tmodelo[t]] # 0 THEN "ret" ELSE "load"]
    /\ UNCHANGED <<_modelos_cache, _sistema_cache, cargas, tfn, tmodelo, thandle, tret,
                   NaoMudaConc>>

\* app.py:465 and app.py:64, right-hand side: the backend load
Carregar(t) ==
    /\ tpc[t] = "load"
    /\ cargas' = [cargas EXCEPT ![tfn[t]][tmodelo[t]] = @ + 1]
    /\ \E carga \in CargaAmb(cargas[tfn[t]], tmodelo[t]) :
           IF carga.fase = "ok"
           THEN /\ thandle' = [thandle EXCEPT ![t] = cargas[tfn[t]][tmodelo[t]] + 1]
                /\ tpc' = [tpc EXCEPT ![t] = "store"]
           ELSE /\ tpc' = [tpc EXCEPT ![t] = "raised"]
                /\ UNCHANGED thandle
    /\ UNCHANGED <<_modelos_cache, _sistema_cache, tfn, tmodelo, tret, NaoMudaConc>>

\* app.py:465 and app.py:64, the assignment to the cache entry
Guardar(t) ==
    /\ tpc[t] = "store"
    /\ IF tfn[t] = "carregar_modelo_whisper"
       THEN /\ _modelos_cache' = [_modelos_cache EXCEPT ![tmodelo[t]] = thandle[t]]
            /\ UNCHANGED _sistema_cache
       ELSE /\ _sistema_cache' = [_sistema_cache EXCEPT ![tmodelo[t]] = thandle[t]]
            /\ UNCHANGED _modelos_cache
    /\ tpc' = [tpc EXCEPT ![t] = "ret"]
    /\ UNCHANGED <<cargas, tfn, tmodelo, thandle, tret, NaoMudaConc>>

\* app.py:467 and app.py:65: the cache entry is read and returned
Devolver(t) ==
    /\ tpc[t] = "ret"
    /\ tret' = [tret EXCEPT ![t] = CacheDe(tfn[t])[tmodelo[t]]]
    /\ tpc' = [tpc EXCEPT ![t] = "done"]
    /\ UNCHANGED <<_modelos_cache, _sistema_cache, cargas, tfn, tmodelo, thandle,
                   NaoMudaConc>>

NextConc == \E t \in Chamadores :
    \/ Pedir(t)
    \/ Verificar(t)
    \/ Carregar(t)
    \/ Guardar(t)
    \/ Devolver(t)

SpecConc == Init /\ [][NextConc]_vars

\* the callers whose own load of model m through function f succeeded
Carregaram(f, m) == {t \in Chamadores : tfn[t] = f /\ tmodelo[t] = m /\ thandle[t] # 0}
Receberam(f, m) == {t \in Chamadores : tfn[t] = f /\ tmodelo[t] = m /\ tpc[t] = "done"}

\* C1: over all interleavings of concurrent requests for one model, at most
\* one caller's load of it succeeds (a second caller waits for the first
\* one's load) and all callers receive the same handle.
C1_UmaCargaPorModelo ==
    \A f \in Caches, m \in ModelosPedidos :
        /\ Cardinality(Carregaram(f, m)) <= 1
        /\ \A t1, t2 \in Receberam(f, m) : tret[t1] = tret[t2]

-----------------------------------------------------------------------------
(* Further properties of the pipeline, checked under Spec *)

\* the code of the source label of the call, None for a label outside IDIOMAS
CodigoOrigem == DictGet(IDIOMAS, entrada.idioma_origem)
OrigemConcreta == CodigoOrigem \notin {None, "auto"}
Resolvido == pc \in {"Transcribing", "Translating", "Done", "Failed"}
                /\ locais.modelo_whisper # None

\* C11: with a concrete source language the transcription is called with that
\* language forced, and the detected language of the run (shown in the info
\* string and passed to the providers as source) is the forced code; with the
\* automatic source no language is passed to the transcription.
C11_IdiomaForcado ==
    Resolvido =>
        \A i \in Posicoes(chamadas, OpsTranscricao) :
            IF OrigemConcreta
            THEN /\ chamadas[i].origem = CodigoOrigem
                 /\ chamadas[i].ok =>
                      /\ locais.idioma_detectado = CodigoOrigem
                      /\ pc = "Done" => resultado.valor[3][2] = entrada.idioma_origem
                      /\ \A j \in Posicoes(chamadas, OpsProvedor) :
                             chamadas[j].origem = CodigoOrigem
            ELSE chamadas[i].origem = None

\* Portuguese was forced and the text was handed to a provider
C11_Witness ==
    /\ pc = "Done" /\ entrada.ponto = "processar_audio"
    /\ entrada.idioma_origem = "Portugues"
    /\ locais.idioma_detectado = "pt"
    /\ \E j \in Posicoes(chamadas, OpsGoogle) : chamadas[j].origem = "pt"

\* the successful calls of modelo.transcribe whose text is empty or whitespace
TranscricoesVazias ==
    {i \in Posicoes(chamadas, {"modelo.transcribe"}) :
        chamadas[i].ok /\ Strip(chamadas[i].res) = Vazio}

\* C12 as claimed: an empty or whitespace-only recognised text is no error and
\* the transcript is exactly the text the backend answered.
C12_Original ==
    \A i \in TranscricoesVazias :
        /\ pc # "Failed"
        /\ locais.texto_transcrito = chamadas[i].res
        /\ pc = "Done" => resultado.valor[1] = chamadas[i].res

\* C12: an empty or whitespace-only recognised text is no error: the run ends
\* in Done and its transcript is the backend's text without its leading and
\* trailing whitespace, that is the empty text; a requested translation gives
\* the empty text back without calling a provider.
C12_TextoVazioSemErro ==
    \A i \in TranscricoesVazias :
        /\ pc \in {"Translating", "Done"}
        /\ locais.texto_transcrito = Vazio
        /\ pc = "Done" =>
              /\ resultado.tipo = "retorno"
              /\ resultado.valor[1] = Vazio
              /\ entrada.traduzir =>
                    /\ resultado.valor[2] = Vazio
                    /\ resultado.valor[3][4] = "nenhum"
                    /\ Posicoes(chamadas, OpsProvedor \cup {"detect"}) = {}

\* the backend answered one blank and a translation was requested
C12_Witness ==
    /\ pc = "Done" /\ entrada.traduzir
    /\ \E i \in TranscricoesVazias : chamadas[i].res = <<" ">>
    /\ resultado.valor[1] = Vazio

\* the cache and the load counters the running entry point uses
FuncaoDoPonto ==
    IF entrada.ponto = "processar_audio" THEN "carregar_modelo_whisper" ELSE "obter_sistema"

\* C13 as claimed: for every cached model the backend load was invoked at most
\* once.
C13_Original ==
    \A f \in Caches, m \in Modelos :
        CacheDe(f)[m] # 0 => cargas[f][m] <= 1

\* one step keeps every cached handle and does not load a cached model again
CacheEstavel ==
    \A m \in Modelos :
        /\ _modelos_cache[m] # 0 =>
              /\ _modelos_cache'[m] = _modelos_cache[m]
              /\ cargas'["carregar_modelo_whisper"][m] = cargas["carregar_modelo_whisper"][m]
        /\ _sistema_cache[m] # 0 =>
              /\ _sistema_cache'[m] = _sistema_cache[m]
              /\ cargas'["obter_sistema"][m] = cargas["obter_sistema"][m]

\* a request that succeeds gives the cached handle, and for a model that was
\* cached already it gives that handle without a backend load
PedidoDevolveCache ==
    (pc = "Transcribing" /\ pc' \in {"Translating", "Done"}) =>
        LET f == FuncaoDoPonto
            m == locais.modelo_whisper
        IN  /\ locais'.modelo # 0
            /\ locais'.modelo = CacheDe(f)'[m]
            /\ CacheDe(f)[m] # 0 =>
                  /\ locais'.modelo = CacheDe(f)[m]
                  /\ Posicoes(chamadas', {"load"}) = {}
                  /\ cargas' = cargas

\* C13: over any sequence of sequential model requests a cached handle is
\* never replaced or removed (so a model has at most one handle and its load
\* succeeds at most once), the backend load is never invoked for a model that
\* is cached, and a request for a cached model returns that handle without
\* calling the backend.
C13_CacheNuncaRecarrega == [][CacheEstavel /\ PedidoDevolveCache]_vars

\* a run of processar_audio was served from the cache
C13_Witness ==
    /\ pc \in {"Translating", "Done"} /\ entrada.ponto = "processar_audio"
    /\ Posicoes(chamadas, {"load"}) = {}
    /\ locais.modelo # 0
    /\ locais.modelo = _modelos_cache[locais.modelo_whisper]

\* C14: the info string of a finished run is always produced and names the
\* detected language: the label of IDIOMAS that has the detected code or, when
\* no label has it, the code itself.
C14_NomeDoIdiomaDetectado ==
    pc = "Done" =>
        /\ Len(resultado.valor[3]) >= 2
        /\ resultado.valor[3][1] = "Idioma detectado: "
        /\ \/ \E k \in DOMAIN IDIOMAS :
                    IDIOMAS[k] = locais.idioma_detectado /\ resultado.valor[3][2] = k
           \/ /\ \A k \in DOMAIN IDIOMAS : IDIOMAS[k] # locais.idioma_detectado
              /\ resultado.valor[3][2] = locais.idioma_detectado

\* the backend reported a code that is not in the table
C14_Witness ==
    /\ pc = "Done" /\ locais.idioma_detectado = "xx"
    /\ resultado.valor[3][2] = "xx"

\* the provider calls of the run so far
ChamadasProvedor == Posicoes(chamadas, OpsProvedor)

\* every provider call follows a successful transcription of a run that asked
\* for a translation, and gets the transcribed text and the detected language
ProvedorSoAposTranscricao ==
    \A j \in ChamadasProvedor :
        /\ entrada.traduzir
        /\ \E i \in Posicoes(chamadas, OpsTranscricao) :
              /\ i < j /\ chamadas[i].ok
              /\ chamadas[i].op = "modelo.transcribe" =>
                    locais.texto_transcrito = Strip(chamadas[i].res)
              /\ chamadas[i].op # "modelo.transcribe" =>
                    locais.texto_transcrito = chamadas[i].res
        /\ chamadas[j].origem = locais.idioma_detectado
        /\ chamadas[j].destino = locais.codigo_idioma_destino
        /\ chamadas[j].op \in {"GoogleTranslator.translate", "MyMemoryTranslator.translate"}
              => chamadas[j].arg = locais.texto_transcrito

\* providers are called by the Translating step only; without a request for a
\* translation the Transcribing step ends the run
PassoDeTraducao ==
    /\ (ChamadasProvedor' # {} /\ chamadas' # chamadas) => pc = "Translating"
    /\ (pc = "Transcribing" /\ ~entrada.traduzir) => pc' \in {"Done", "Failed"}
    /\ pc' = "Translating" => entrada.traduzir

\* C15: a provider is called only when a translation was requested and only
\* after the transcription succeeded, with the transcribed text and the
\* detected language as text and source; without a request no provider is
\* called and the run goes from Transcribing to Done (or Failed).
C15_TraducaoAposTranscricao ==
    [](ProvedorSoAposTranscricao /\ (~entrada.traduzir => pc # "Translating"))
      /\ [][PassoDeTraducao]_vars

\* a provider translated the text the transcription gave
C15_Witness ==
    /\ pc = "Done" /\ entrada.traduzir /\ entrada.ponto = "processar_audio"
    /\ \E j \in Posicoes(chamadas, {"GoogleTranslator.translate"}) :
          chamadas[j].ok /\ chamadas[j].arg = locais.texto_transcrito
                         /\ resultado.valor[2] = chamadas[j].res

\* a step whose last call is a failed load leaves both caches as they were
FalhaDeCargaNaoMexe ==
    (chamadas' # chamadas /\ chamadas' # <<>>
       /\ chamadas'[Len(chamadas')].op = "load" /\ ~chamadas'[Len(chamadas')].ok) =>
        /\ _modelos_cache' = _modelos_cache
        /\ _sistema_cache' = _sistema_cache
        /\ pc' = "Failed"

\* a step changes a cache only by adding the entry of the model the run loaded
SoAcrescentaOCarregado ==
    \A f \in Caches, m \in Modelos :
        CacheDe(f)'[m] # CacheDe(f)[m] =>
            /\ CacheDe(f)[m] = 0
            /\ pc = "Transcribing"
            /\ f = FuncaoDoPonto
            /\ m = locais.modelo_whisper
            /\ \E i \in Posicoes(chamadas', {"load"}) :
                  chamadas'[i].ok /\ chamadas'[i].arg = <<m>>

\* a request for a model that is not cached invokes the load, also after an
\* earlier load of it failed
CargaTentadaDeNovo ==
    (pc = "Transcribing" /\ pc' # "Transcribing"
       /\ CacheDe(FuncaoDoPonto)[locais.modelo_whisper] = 0) =>
        /\ Posicoes(chamadas', {"load"}) # {}
        /\ cargas'[FuncaoDoPonto][locais.modelo_whisper]
             = cargas[FuncaoDoPonto][locais.modelo_whisper] + 1

\* C16: a failed load leaves the caches unchanged, so that the next request
\* for the model invokes the load again, and a run changes the shared state
\* only by adding the cache entry of the model it loaded.
C16_FalhaDeCargaSemEfeito ==
    [][FalhaDeCargaNaoMexe /\ SoAcrescentaOCarregado /\ CargaTentadaDeNovo]_vars

\* the load of a model failed and a later request loaded it
C16_Witness ==
    /\ pc \in {"Translating", "Done"} /\ entrada.ponto = "processar_audio"
    /\ \E i \in Posicoes(chamadas, {"load"}) : chamadas[i].ok
    /\ cargas["carregar_modelo_whisper"][locais.modelo_whisper] >= 2
    /\ _modelos_cache[locais.modelo_whisper] = locais.modelo

====
